---- MODULE Spec2Model ----
(***************************************************************************)
(* Model of the real-estate chaincode (src/chaincode.go): the dispatch     *)
(* router Invoke and the handlers initProperty, initConditon,              *)
(* CreateContract, readValue and transferProperty, run against a ledger    *)
(* stub offering GetState / PutState.                                      *)
(*                                                                         *)
(* Go strings are sequences of one-character strings (<<"P","1">>), so     *)
(* that strings.ToLower, len() and strconv.Atoi are computed, not assumed. *)
(* A stored JSON document is a record whose fields are the JSON keys.      *)
(*                                                                         *)
(* Reading notes on the source as written:                                 *)
(*  - the struct fields Property_num / Condition_num / Contract_num are    *)
(*    declared int but are assigned the lower-cased string arguments; the  *)
(*    model carries the value the code assigns (a string).                 *)
(*  - initConditon and CreateContract lack the closing brace of the        *)
(*    `if err != nil` after json.Marshal; the statements that follow are   *)
(*    at function-body indentation and are modelled as following the if.   *)
(*  - identifiers that no declaration of the file defines (conditionNum,   *)
(*    seller, buyer, deposit in CreateContract; name in readValue; the     *)
(*    type marble in transferProperty) are unknown values: the model       *)
(*    draws them nondeterministically.                                     *)
(***************************************************************************)
EXTENDS Integers, Sequences, FiniteSets, TLC

VARIABLES
    ledger,     \* the world state: key -> stored document
    last,       \* the invocation that ran last: its input, response, and the
                \* ledger it started from
    marble,     \* the JSON keys of the undeclared type marble
    version,    \* the ledger's version of each key (concurrent runs)
    txs         \* the transferProperty transactions in flight (concurrent runs)

vars == <<ledger, last, marble, version, txs>>

(***************************************************************************)
(* Bounds and input pools                                                  *)
(***************************************************************************)
\* how many arguments beyond the required count an invocation may carry
MaxExtraArgs == 1

\* the highest version a key reaches in the concurrent runs
MaxVersion == 3

\* the transactions of the concurrent runs
Txs == {"t1", "t2"}

\* the empty Go string
Empty == <<>>

\* the argument strings the invocations draw from, per position
\* (the ledger keys are "p" and "q": "p" only ever holds a property, "q" is
\* the key of the property created as "Q", of the conditions and of the
\* contracts)
IdStrings == {Empty, <<"p">>, <<"q">>, <<"Q">>}
PropertyIdStrings == {Empty, <<"p">>, <<"Q">>}
ConditionIdStrings == {Empty, <<"q">>}
ContractIdStrings == {Empty, <<"Q">>}
NameStrings == {Empty, <<"N">>, <<" ">>}
AddressStrings == {Empty, <<"s">>}
OwnerStrings == {Empty, <<"B">>}
NewOwnerStrings == {Empty, <<"A">>}
RefPropertyStrings == {Empty, <<"p">>}
RefConditionStrings == {Empty, <<"q">>}
SellerStrings == {Empty, <<"A">>}
BuyerStrings == {Empty, <<"b">>}
DepositStrings == {Empty, <<"5">>, <<"-", "5">>, <<"x">>}
ExtraArg == <<"x">>

\* function names no branch of Invoke tests for
UnroutedNames ==
    {"initCondition", "createContract", "deleteEverything", "delete"}

\* values an identifier without a declaration may stand for
UndefinedValues ==
    {[conditionNum |-> Empty, seller |-> Empty, buyer |-> Empty, deposit |-> 0],
     [conditionNum |-> <<"q">>, seller |-> <<"a">>, buyer |-> <<"b">>, deposit |-> 5]}
UndefinedText == {"name"}

\* errors the ledger stub may return from GetState / PutState; NoErr is nil
NoErr == "nil"
LedgerFailure == "ledger failure"
StubErrors == {NoErr, LedgerFailure}

\* the error with which the ledger rejects a write that rests on a stale read
ConflictError == "ConflictError: the key was modified since it was read"

(***************************************************************************)
(* strings, strconv                                                        *)
(***************************************************************************)
ToLowerChar(c) ==
    CASE c = "A" -> "a"
      [] c = "B" -> "b"
      [] c = "C" -> "c"
      [] c = "N" -> "n"
      [] c = "P" -> "p"
      [] c = "Q" -> "q"
      [] c = "S" -> "s"
      [] c = "X" -> "x"
      [] OTHER -> c

ToLower(s) == [i \in 1..Len(s) |-> ToLowerChar(s[i])]

IsDigit(c) == c \in {"0", "1", "2", "3", "4", "5", "6", "7", "8", "9"}

DigitVal(c) ==
    CASE c = "0" -> 0 [] c = "1" -> 1 [] c = "2" -> 2 [] c = "3" -> 3
      [] c = "4" -> 4 [] c = "5" -> 5 [] c = "6" -> 6 [] c = "7" -> 7
      [] c = "8" -> 8 [] c = "9" -> 9 [] OTHER -> 0

RECURSIVE DigitsVal(_)
DigitsVal(s) ==
    IF Len(s) = 0 THEN 0
    ELSE 10 * DigitsVal(SubSeq(s, 1, Len(s) - 1)) + DigitVal(s[Len(s)])

\* strconv.Atoi: an optional sign, then one or more decimal digits
Atoi(s) ==
    LET signed == Len(s) > 0 /\ s[1] \in {"+", "-"}
        digits == IF signed THEN SubSeq(s, 2, Len(s)) ELSE s
        ok     == Len(digits) > 0 /\ \A i \in 1..Len(digits) : IsDigit(digits[i])
    IN  IF ~ok THEN [ok |-> FALSE, val |-> 0]
        ELSE [ok |-> TRUE,
              val |-> IF signed /\ s[1] = "-" THEN 0 - DigitsVal(digits)
                      ELSE DigitsVal(digits)]

(***************************************************************************)
(* shim responses                                                          *)
(***************************************************************************)
\* a nil payload is the empty sequence, a document d is <<d>>
Nil == <<>>

Success(payload) == [status |-> "OK", message |-> <<>>, payload |-> payload]

\* message is the sequence of the parts the code concatenates
Error(message) == [status |-> "ERROR", message |-> message, payload |-> Nil]

(***************************************************************************)
(* the ledger stub                                                         *)
(***************************************************************************)
\* GetState returns nil for a key that holds nothing
GetState(st, key) == IF key \in DOMAIN st THEN <<st[key]>> ELSE Nil

PutState(st, key, doc) ==
    [k \in DOMAIN st \cup {key} |-> IF k = key THEN doc ELSE st[k]]

Ret(resp, st, err) == [resp |-> resp, ledger |-> st, err |-> err]

(***************************************************************************)
(* documents (encoding/json)                                               *)
(***************************************************************************)
\* the JSON keys of struct property
PropertyFields == {"docType", "property_num", "name", "address", "owner"}

\* the JSON keys of struct conditionOfContract
ConditionFields ==
    {"docType", "condition_num", "property_num", "seller", "buyer", "deposit"}

\* the JSON keys of the marble of the sample invocations the file's header
\* documents: initMarble name, color, size, owner, indexed by docType
MarbleSampleFields == {"docType", "name", "color", "size", "owner"}

\* what the undeclared type marble may declare: the file's own property
\* struct, or the marble of the header
MarbleTypes == {PropertyFields, MarbleSampleFields}

\* the zero value json.Unmarshal leaves in a field the document lacks
Zero(f) == IF f \in {"size", "deposit"} THEN 0 ELSE IF f = "docType" THEN "" ELSE Empty

\* &property{objectType, propertyNum, propertyName, address, owner}
property(objectType, propertyNum, propertyName, address, owner) ==
    [docType |-> objectType, property_num |-> propertyNum, name |-> propertyName,
     address |-> address, owner |-> owner]

\* &conditionOfContract{objectType, conditionNum, propertyNum, seller, buyer, deposit}
conditionOfContract(objectType, conditionNum, propertyNum, seller, buyer, deposit) ==
    [docType |-> objectType, condition_num |-> conditionNum,
     property_num |-> propertyNum, seller |-> seller, buyer |-> buyer,
     deposit |-> deposit]

\* json.Unmarshal(bytes, &v) for v of a struct type declaring `fields`:
\* keys the type declares are kept, the others dropped, missing ones zero
Unmarshal(doc, fields) ==
    [f \in fields |-> IF f \in DOMAIN doc THEN doc[f] ELSE Zero(f)]

\* the same had the transfer kept the previous owner in front of the new one
WithOwnerAppended(v, newOwner) ==
    [f \in DOMAIN v |-> IF f = "owner" THEN v[f] \o newOwner ELSE v[f]]

\* v.Owner = newOwner followed by json.Marshal(v)
WithOwner(v, newOwner) == [f \in DOMAIN v |-> IF f = "owner" THEN newOwner ELSE v[f]]

(***************************************************************************)
(* handlers: each returns the response, the ledger it leaves and the error *)
(* the stub reported to it                                                 *)
(***************************************************************************)
NonEmptyMsg(i) ==
    CASE i = 1 -> "1st argument must be a non-empty string"
      [] i = 2 -> "2nd argument must be a non-empty string"
      [] i = 3 -> "3rd argument must be a non-empty string"
      [] i = 4 -> "4th argument must be a non-empty string"
      [] OTHER -> "5th argument must be a non-empty string"

\* the first position whose `len(args[i]) <= 0` check fires, 0 when none does
FirstEmpty(args) ==
    LET bad == {i \in 1..Len(args) : Len(args[i]) <= 0}
    IN  IF bad = {} THEN 0 ELSE CHOOSE i \in bad : \A j \in bad : i <= j

\* err = stub.PutState(key, bytes); if err != nil { return shim.Error(err.Error()) }
\* return shim.Success(nil)
\* the same with the error of PutState dropped (`_ = stub.PutState(...)`)
PutAndReturnErrorDropped(st, key, doc, putErr) ==
    Ret(Success(Nil), IF putErr # NoErr THEN st ELSE PutState(st, key, doc), NoErr)

PutAndReturn(st, key, doc, putErr) ==
    IF putErr # NoErr THEN Ret(Error(<<putErr>>), st, putErr)
    ELSE Ret(Success(Nil), PutState(st, key, doc), NoErr)

\* initProperty had it refused an identifier that already holds a record
initPropertyIfAbsent(st, args, u) ==
    IF Len(args) # 4
    THEN Ret(Error(<<"Incorrect number of arguments. Expecting 4">>), st, NoErr)
    ELSE IF FirstEmpty(args) # 0
    THEN Ret(Error(<<NonEmptyMsg(FirstEmpty(args))>>), st, NoErr)
    ELSE IF ToLower(args[1]) \in DOMAIN st
    THEN Ret(Error(<<"This property already exists: ">>), st, NoErr)
    ELSE PutAndReturn(st, ToLower(args[1]),
                      property("property", ToLower(args[1]), ToLower(args[2]),
                               ToLower(args[3]), ToLower(args[4])),
                      u.putErr)

initProperty(st, args, u) ==
    IF Len(args) # 4
    THEN Ret(Error(<<"Incorrect number of arguments. Expecting 4">>), st, NoErr)
    ELSE IF FirstEmpty(args) # 0
    THEN Ret(Error(<<NonEmptyMsg(FirstEmpty(args))>>), st, NoErr)
    ELSE LET propertyNum  == ToLower(args[1])
             propertyName == ToLower(args[2])
             address      == ToLower(args[3])
             owner        == ToLower(args[4])
             doc == property("property", propertyNum, propertyName, address, owner)
         IN  PutAndReturn(st, propertyNum, doc, u.putErr)

\* initConditon had it dropped the error of strconv.Atoi
\* (`deposit, _ := strconv.Atoi(args[4])`)
initConditonAtoiErrorDropped(st, args, u) ==
    IF Len(args) # 5
    THEN Ret(Error(<<"Incorrect number of arguments. Expecting 5">>), st, NoErr)
    ELSE IF FirstEmpty(args) # 0
    THEN Ret(Error(<<NonEmptyMsg(FirstEmpty(args))>>), st, NoErr)
    ELSE PutAndReturn(st, ToLower(args[1]),
                      conditionOfContract("condition", ToLower(args[1]),
                          ToLower(args[2]), ToLower(args[3]), ToLower(args[4]),
                          Atoi(args[5]).val),
                      u.putErr)

initConditon(st, args, u) ==
    IF Len(args) # 5
    THEN Ret(Error(<<"Incorrect number of arguments. Expecting 5">>), st, NoErr)
    ELSE IF FirstEmpty(args) # 0
    THEN Ret(Error(<<NonEmptyMsg(FirstEmpty(args))>>), st, NoErr)
    ELSE LET conditionNum == ToLower(args[1])
             propertyNum  == ToLower(args[2])
             seller       == ToLower(args[3])
             buyer        == ToLower(args[4])
             deposit      == Atoi(args[5])
         IN  IF ~deposit.ok
             THEN Ret(Error(<<"5th argument must be a numeric string">>), st, NoErr)
             ELSE PutAndReturn(st, conditionNum,
                               conditionOfContract("condition", conditionNum,
                                   propertyNum, seller, buyer, deposit.val),
                               u.putErr)

\* conditionNum, seller, buyer and deposit are not declared in the function:
\* u carries what they stand for
CreateContract(st, args, u) ==
    IF Len(args) # 2
    THEN Ret(Error(<<"Incorrect number of arguments. Expecting 2">>), st, NoErr)
    ELSE IF FirstEmpty(args) # 0
    THEN Ret(Error(<<NonEmptyMsg(FirstEmpty(args))>>), st, NoErr)
    ELSE LET contractNum == ToLower(args[1])
             propertyNum == ToLower(args[2])
         IN  PutAndReturn(st, contractNum,
                          conditionOfContract("contract", u.conditionNum,
                              propertyNum, u.seller, u.buyer, u.deposit),
                          u.putErr)

\* readValue without its `valAsbytes == nil` branch
readValueNoNilBranch(st, args, u) ==
    IF Len(args) # 1
    THEN Ret(Error(<<"Incorrect number of arguments. Expecting number of the value to query">>),
             st, NoErr)
    ELSE IF u.getErr # NoErr
    THEN Ret(Error(<<"{\"Error\":\"Failed to get value for ", u.name, "\"}">>),
             st, u.getErr)
    ELSE Ret(Success(GetState(st, args[1])), st, NoErr)

\* name is not declared in the function: u.name is what it stands for
\* the same had readValue lower-cased its key as the create handlers do
readValueKeyLowered(st, args, u) ==
    IF Len(args) # 1
    THEN Ret(Error(<<"Incorrect number of arguments. Expecting number of the value to query">>),
             st, NoErr)
    ELSE LET key == ToLower(args[1])
             valAsbytes == GetState(st, key)
         IN  IF u.getErr # NoErr
             THEN Ret(Error(<<"{\"Error\":\"Failed to get value for ", u.name, "\"}">>),
                      st, u.getErr)
             ELSE IF valAsbytes = Nil
             THEN Ret(Error(<<"{\"Error\":\"Value does not exist: ", u.name, "\"}">>),
                      st, NoErr)
             ELSE Ret(Success(valAsbytes), st, NoErr)

readValue(st, args, u) ==
    IF Len(args) # 1
    THEN Ret(Error(<<"Incorrect number of arguments. Expecting number of the value to query">>),
             st, NoErr)
    ELSE LET key == args[1]
             valAsbytes == GetState(st, key)
         IN  IF u.getErr # NoErr
             THEN Ret(Error(<<"{\"Error\":\"Failed to get value for ", u.name, "\"}">>),
                      st, u.getErr)
             ELSE IF valAsbytes = Nil
             THEN Ret(Error(<<"{\"Error\":\"Value does not exist: ", u.name, "\"}">>),
                      st, NoErr)
             ELSE Ret(Success(valAsbytes), st, NoErr)

\* transferProperty without its `propertyAsBytes == nil` branch: nil bytes
\* leave the zero value of the struct
transferPropertyNoNilBranch(st, args, u) ==
    IF Len(args) < 2
    THEN Ret(Error(<<"Incorrect number of arguments. Expecting 2">>), st, NoErr)
    ELSE IF u.getErr # NoErr
    THEN Ret(Error(<<"Failed to get property:", u.getErr>>), st, u.getErr)
    ELSE LET found == GetState(st, args[1])
             v == IF found = Nil THEN [f \in u.marble |-> Zero(f)]
                  ELSE Unmarshal(found[1], u.marble)
         IN  PutAndReturn(st, args[1], WithOwner(v, ToLower(args[2])), u.putErr)

\* transferProperty up to the check of what GetState returned: either it has
\* returned a response, or it goes on with the bytes it read
transferPropertyGet(st, args, u) ==
    IF Len(args) < 2
    THEN [returned |-> TRUE, err |-> NoErr, propertyAsBytes |-> Nil,
          resp |-> Error(<<"Incorrect number of arguments. Expecting 2">>)]
    ELSE LET propertyNum == args[1]
             propertyAsBytes == GetState(st, propertyNum)
         IN  IF u.getErr # NoErr
             THEN [returned |-> TRUE, err |-> u.getErr, propertyAsBytes |-> Nil,
                   resp |-> Error(<<"Failed to get property:", u.getErr>>)]
             ELSE IF propertyAsBytes = Nil
             THEN [returned |-> TRUE, err |-> NoErr, propertyAsBytes |-> Nil,
                   resp |-> Error(<<"Property does not exist">>)]
             ELSE [returned |-> FALSE, err |-> NoErr,
                   propertyAsBytes |-> propertyAsBytes, resp |-> Success(Nil)]

\* transferProperty from json.Unmarshal on. The type marble is not declared
\* in the file: u.marble is the set of JSON keys it declares
\* the same had newOwner been taken from args[1] as given
transferPropertyPutOwnerAsGiven(st, args, propertyAsBytes, u) ==
    LET propertyNum == args[1]
        newOwner    == args[2]
        propertyToTransfer == Unmarshal(propertyAsBytes[1], u.marble)
    IN  PutAndReturn(st, propertyNum, WithOwner(propertyToTransfer, newOwner),
                     u.putErr)

transferPropertyPut(st, args, propertyAsBytes, u) ==
    LET propertyNum == args[1]
        newOwner    == ToLower(args[2])
        propertyToTransfer == Unmarshal(propertyAsBytes[1], u.marble)
    IN  PutAndReturn(st, propertyNum, WithOwner(propertyToTransfer, newOwner),
                     u.putErr)

transferProperty(st, args, u) ==
    LET g == transferPropertyGet(st, args, u)
    IN  IF g.returned THEN Ret(g.resp, st, g.err)
        ELSE transferPropertyPut(st, args, g.propertyAsBytes, u)

(***************************************************************************)
(* the dispatch router                                                     *)
(***************************************************************************)
\* the router with a "delete" entry that removes the addressed key
InvokeWithDelete(st, function, args, u) ==
    IF function = "initProperty" THEN initProperty(st, args, u)
    ELSE IF function = "initConditon" THEN initConditon(st, args, u)
    ELSE IF function = "CreateContract" THEN CreateContract(st, args, u)
    ELSE IF function = "transferProperty" THEN transferProperty(st, args, u)
    ELSE IF function = "readValue" THEN readValue(st, args, u)
    ELSE IF function = "delete" /\ Len(args) >= 1
    THEN IF args[1] \in DOMAIN st
         THEN Ret(Success(Nil),
                  [k \in DOMAIN st \ {args[1]} |-> st[k]], NoErr)
         ELSE Ret(Error(<<"Value does not exist: ", args[1]>>), st, NoErr)
    ELSE Ret(Error(<<"Received unknown function invocation">>), st, NoErr)

Invoke(st, function, args, u) ==
    IF function = "initProperty" THEN initProperty(st, args, u)
    ELSE IF function = "initConditon" THEN initConditon(st, args, u)
    ELSE IF function = "CreateContract" THEN CreateContract(st, args, u)
    ELSE IF function = "transferProperty" THEN transferProperty(st, args, u)
    ELSE IF function = "readValue" THEN readValue(st, args, u)
    ELSE Ret(Error(<<"Received unknown function invocation">>), st, NoErr)

(***************************************************************************)
(* invocations                                                             *)
(***************************************************************************)
\* the argument lists with one string of pools[i] at each position i
Product(pools) ==
    {a \in [1..Len(pools) -> UNION {pools[i] : i \in 1..Len(pools)}] :
        \A i \in 1..Len(pools) : a[i] \in pools[i]}

NoEmpty(a) == \A i \in 1..Len(a) : a[i] # Empty

Extras(k) == [i \in 1..k |-> ExtraArg]

\* the argument lists tried for a handler whose positions draw from pools:
\* every list of the required length with at most one empty string, and,
\* of the lists without empty strings, the one-shorter prefix and the
\* extensions by up to MaxExtraArgs arguments
ArgLists(pools) ==
    LET all  == {a \in Product(pools) :
                    Cardinality({i \in 1..Len(a) : a[i] = Empty}) <= 1}
        full == {a \in all : NoEmpty(a)}
    IN  all
        \cup {SubSeq(a, 1, Len(a) - 1) : a \in full}
        \cup {a \o Extras(k) : a \in full, k \in 1..MaxExtraArgs}

initPropertyArgs ==
    ArgLists(<<PropertyIdStrings, NameStrings, AddressStrings, OwnerStrings>>)

initConditonArgs ==
    ArgLists(<<ConditionIdStrings, RefPropertyStrings, SellerStrings, BuyerStrings,
               DepositStrings>>)

CreateContractArgs == ArgLists(<<ContractIdStrings, RefConditionStrings>>)

transferPropertyArgs == ArgLists(<<IdStrings, NewOwnerStrings>>)

readValueArgs == ArgLists(<<IdStrings>>)

UnroutedArgs(function) ==
    IF function = "initCondition" THEN initConditonArgs
    ELSE IF function = "createContract" THEN CreateContractArgs
    ELSE readValueArgs

\* what an invocation does not control: the stub's errors and the values
\* of the identifiers the file does not declare
Unknowns(getErr, putErr, undefined, name) ==
    [getErr |-> getErr, putErr |-> putErr, conditionNum |-> undefined.conditionNum,
     seller |-> undefined.seller, buyer |-> undefined.buyer,
     deposit |-> undefined.deposit, name |-> name, marble |-> marble]

\* for the handlers that use no undeclared identifier
NoUnknowns(getErr, putErr) ==
    Unknowns(getErr, putErr,
             [conditionNum |-> Empty, seller |-> Empty, buyer |-> Empty,
              deposit |-> 0], "")

\* the stub fails at most one call of an invocation: a handler returns at
\* the first error
Faults ==
    {f \in [get : StubErrors, put : StubErrors] : f.get = NoErr \/ f.put = NoErr}

\* one invocation: the stub hands Invoke the function name and arguments,
\* the writes of a handler that ran are the ledger afterwards
Transaction(function, args, u) ==
    LET r == Invoke(ledger, function, args, u)
    IN  /\ ledger' = r.ledger
        /\ last' = [function |-> function, args |-> args, resp |-> r.resp,
                    err |-> r.err, before |-> ledger]
        /\ UNCHANGED <<marble, version, txs>>

\* a transaction that has not started
Idle ==
    [pc |-> "idle", args |-> <<>>, propertyAsBytes |-> Nil, readVersion |-> 0,
     writeVersion |-> 0, resp |-> Success(Nil), err |-> NoErr]

Init ==
    /\ ledger = <<>>
    /\ marble \in MarbleTypes
    /\ version = <<>>
    /\ txs = [t \in Txs |-> Idle]
    /\ last = [function |-> "Init", args |-> <<>>, resp |-> Success(Nil),
               err |-> NoErr, before |-> <<>>]

InvokeInitProperty ==
    \E args \in initPropertyArgs, putErr \in StubErrors :
        Transaction("initProperty", args, NoUnknowns(NoErr, putErr))

InvokeInitConditon ==
    \E args \in initConditonArgs, putErr \in StubErrors :
        Transaction("initConditon", args, NoUnknowns(NoErr, putErr))

InvokeCreateContract ==
    \E args \in CreateContractArgs, putErr \in StubErrors,
       undefined \in UndefinedValues :
        Transaction("CreateContract", args, Unknowns(NoErr, putErr, undefined, ""))

InvokeTransferProperty ==
    \E args \in transferPropertyArgs, f \in Faults :
        Transaction("transferProperty", args, NoUnknowns(f.get, f.put))

InvokeReadValue ==
    \E args \in readValueArgs, getErr \in StubErrors, name \in UndefinedText :
        Transaction("readValue", args,
            [NoUnknowns(getErr, NoErr) EXCEPT !.name = name])

\* a name Invoke has no branch for, with the arguments the operation the
\* caller meant would accept
InvokeUnrouted ==
    \E function \in UnroutedNames :
        \E args \in {a \in UnroutedArgs(function) : NoEmpty(a)} :
            Transaction(function, args, NoUnknowns(NoErr, NoErr))

Next ==
    \/ InvokeInitProperty
    \/ InvokeInitConditon
    \/ InvokeCreateContract
    \/ InvokeTransferProperty
    \/ InvokeReadValue
    \/ InvokeUnrouted

Spec == Init /\ [][Next]_vars

(***************************************************************************)
(* vocabulary of the properties: the failure classes, read off the         *)
(* messages the handlers return                                            *)
(***************************************************************************)
IsSuccess(r) == r.status = "OK"

IsFailure(r) == r.status = "ERROR"

WrongArityMessages ==
    {"Incorrect number of arguments. Expecting 4",
     "Incorrect number of arguments. Expecting 5",
     "Incorrect number of arguments. Expecting 2",
     "Incorrect number of arguments. Expecting number of the value to query"}

IsWrongArity(r) ==
    IsFailure(r) /\ Len(r.message) = 1 /\ r.message[1] \in WrongArityMessages

IsEmptyField(r) ==
    IsFailure(r) /\ \E i \in 1..5 : r.message = <<NonEmptyMsg(i)>>

IsNotNumeric(r) ==
    IsFailure(r) /\ r.message = <<"5th argument must be a numeric string">>

IsValidationError(r) == IsWrongArity(r) \/ IsEmptyField(r) \/ IsNotNumeric(r)

IsNotFound(r) ==
    /\ IsFailure(r)
    /\ Len(r.message) >= 1
    /\ r.message[1] \in {"Property does not exist",
                         "{\"Error\":\"Value does not exist: "}

IsUnknownFunction(r) ==
    IsFailure(r) /\ r.message = <<"Received unknown function invocation">>

\* the create handlers, and the argument count each operation requires
Creates == {"initProperty", "initConditon", "CreateContract"}

Required(function) ==
    CASE function = "initProperty" -> 4
      [] function \in {"initConditon", "initCondition"} -> 5
      [] function \in {"CreateContract", "createContract"} -> 2
      [] function = "transferProperty" -> 2
      [] OTHER -> 1

\* the key an invocation addresses: the creates lower-case their first
\* argument, readValue and transferProperty use it as given
AddressedKey(function, args) ==
    IF function \in Creates THEN ToLower(args[1]) ELSE args[1]

\* a readValue of key, run on the current ledger with a stub that works
ReadBack(key) == readValue(ledger, <<key>>, NoUnknowns(NoErr, NoErr)).resp

\* the record the spec's data model gives a create call with these inputs
ExpectedRecord(function, args) ==
    IF function = "initProperty"
    THEN [docType |-> "property", property_num |-> ToLower(args[1]),
          name |-> ToLower(args[2]), address |-> ToLower(args[3]),
          owner |-> ToLower(args[4])]
    ELSE IF function = "initConditon"
    THEN [docType |-> "condition", condition_num |-> ToLower(args[1]),
          property_num |-> ToLower(args[2]), seller |-> ToLower(args[3]),
          buyer |-> ToLower(args[4]), deposit |-> Atoi(args[5]).val]
    ELSE [docType |-> "contract", contract_num |-> ToLower(args[1]),
          condition_num |-> ToLower(args[2])]

(***************************************************************************)
(* C1                                                                      *)
(***************************************************************************)
\* C1: after every successful create call (initProperty, initConditon,
\* CreateContract), a readValue of the same identifier succeeds and returns
\* the record whose fields are the call's inputs lower-cased and whose
\* docType is the literal of the entity kind.
C1_CreateThenRead ==
    (last.function \in Creates /\ IsSuccess(last.resp)) =>
        /\ IsSuccess(ReadBack(last.args[1]))
        /\ ReadBack(last.args[1]).payload
               = <<ExpectedRecord(last.function, last.args)>>

(***************************************************************************)
(* C2                                                                      *)
(***************************************************************************)
\* C2: a create or transfer invocation in which a required argument is the
\* empty string returns a ValidationError and leaves the ledger as it was.
C2_EmptyArgumentRejected ==
    (/\ last.function \in Creates \cup {"transferProperty"}
     /\ \E i \in 1..Required(last.function) :
            i <= Len(last.args) /\ last.args[i] = Empty) =>
        /\ IsValidationError(last.resp)
        /\ ledger = last.before

(***************************************************************************)
(* C3                                                                      *)
(***************************************************************************)
\* C3: an invocation of one of the five operations whose argument count
\* differs from the required count (more or fewer) returns WrongArity and
\* leaves the ledger as it was.
C3_ExactArity ==
    (/\ last.function \in Creates \cup {"transferProperty", "readValue"}
     /\ Len(last.args) # Required(last.function)) =>
        /\ IsWrongArity(last.resp)
        /\ ledger = last.before

(***************************************************************************)
(* C4                                                                      *)
(***************************************************************************)
\* the last invocation was a create whose identifier already held a record
CreateOnExisting ==
    /\ last.function \in Creates
    /\ Len(last.args) >= 1
    /\ ToLower(last.args[1]) \in DOMAIN last.before

\* C4 as claimed: a create invoked with an identifier at which a record
\* already exists fails and leaves the ledger, and so that record, unchanged.
C4_CreatedAtMostOnce ==
    CreateOnExisting => IsFailure(last.resp) /\ ledger = last.before

\* C4 as amended: the creates make no existence check. A create invoked with
\* an identifier at which a record already exists fails only on a validation
\* error or an error of the stub, leaving the ledger unchanged; otherwise it
\* succeeds and replaces the record under that key by the record built from
\* the call (docType of the create's kind, property_num from the call, the
\* whole record for initProperty and initConditon), every other key unchanged.
C4_CreateOverwrites ==
    CreateOnExisting =>
        LET key == ToLower(last.args[1])
        IN  /\ IsFailure(last.resp) =>
                /\ IsValidationError(last.resp) \/ last.err # NoErr
                /\ ledger = last.before
            /\ IsSuccess(last.resp) =>
                /\ DOMAIN ledger = DOMAIN last.before
                /\ \A k \in DOMAIN ledger \ {key} : ledger[k] = last.before[k]
                /\ ledger[key].docType
                       = ExpectedRecord(last.function, last.args).docType
                /\ ledger[key].property_num
                       = IF last.function = "initProperty" THEN key
                         ELSE ToLower(last.args[2])
                /\ last.function # "CreateContract" =>
                       ledger[key] = ExpectedRecord(last.function, last.args)

\* a create succeeded on a key that held a different record
C4_Witness ==
    /\ CreateOnExisting
    /\ last.function = "initProperty"
    /\ IsSuccess(last.resp)
    /\ ledger[ToLower(last.args[1])] # last.before[ToLower(last.args[1])]

(***************************************************************************)
(* C5                                                                      *)
(***************************************************************************)
\* C5: a successful transferProperty(propertyNum, newOwner) on an existing
\* Property leaves the ledger as before except that the record under
\* propertyNum has owner = lower-cased newOwner: docType, property_num, name
\* and address of the record and every other key are unchanged.
C5_TransferChangesOnlyOwner ==
    (/\ last.function = "transferProperty"
     /\ IsSuccess(last.resp)
     /\ last.before[last.args[1]].docType = "property") =>
        ledger = PutState(last.before, last.args[1],
                          [f \in DOMAIN last.before[last.args[1]] |->
                              IF f = "owner" THEN ToLower(last.args[2])
                              ELSE last.before[last.args[1]][f]])

(***************************************************************************)
(* C6                                                                      *)
(***************************************************************************)
\* the last invocation was a transferProperty, with its two arguments, of a
\* key that held nothing
TransferOfAbsent ==
    /\ last.function = "transferProperty"
    /\ Len(last.args) >= 2
    /\ last.args[1] \notin DOMAIN last.before

\* C6: transferProperty of a propertyNum that holds no record fails and
\* leaves the ledger unchanged, the key still absent; unless GetState itself
\* reported an error, the failure is NotFound.
C6_TransferAbsentNotFound ==
    TransferOfAbsent =>
        /\ IsFailure(last.resp)
        /\ ledger = last.before
        /\ last.args[1] \notin DOMAIN ledger
        /\ last.err = NoErr => IsNotFound(last.resp)

C6_Witness ==
    TransferOfAbsent /\ last.err = NoErr /\ NoEmpty(last.args) /\ IsNotFound(last.resp)

(***************************************************************************)
(* C7                                                                      *)
(***************************************************************************)
\* the last invocation was a readValue, with its one argument, of a key
\* that held nothing
ReadOfAbsent ==
    /\ last.function = "readValue"
    /\ Len(last.args) = 1
    /\ last.args[1] \notin DOMAIN last.before

\* C7: readValue of an identifier that holds no record is never a success
\* (with or without payload); unless GetState itself reported an error it is
\* the NotFound failure "Value does not exist".
C7_ReadAbsentNotFound ==
    ReadOfAbsent =>
        /\ IsFailure(last.resp)
        /\ last.resp.payload = Nil
        /\ last.err = NoErr => IsNotFound(last.resp)

C7_Witness ==
    ReadOfAbsent /\ last.err = NoErr /\ last.args[1] # Empty /\ IsNotFound(last.resp)

(***************************************************************************)
(* C8                                                                      *)
(***************************************************************************)
\* the names Invoke has a branch for
Registered ==
    {"initProperty", "initConditon", "CreateContract", "transferProperty",
     "readValue"}

\* C8: an invocation under a name that is not registered returns the
\* UnknownFunction failure, its message names the function that was not
\* recognized, and the ledger is unchanged.
C8_UnknownFunctionNamed ==
    (last.function \notin Registered \cup {"Init"}) =>
        /\ IsFailure(last.resp)
        /\ \E i \in 1..Len(last.resp.message) :
               last.resp.message[i] = last.function
        /\ ledger = last.before

(***************************************************************************)
(* C9                                                                      *)
(***************************************************************************)
\* the function names of the invocation surface
SurfaceNames ==
    {"initProperty", "initCondition", "createContract", "transferProperty",
     "readValue"}

\* C9: an invocation under one of the five names of the invocation surface,
\* with the required number of non-empty arguments, is routed to its
\* operation: it is never answered with UnknownFunction.
C9_SurfaceNamesRouted ==
    (/\ last.function \in SurfaceNames
     /\ Len(last.args) = Required(last.function)
     /\ NoEmpty(last.args)) =>
        ~IsUnknownFunction(last.resp)

(***************************************************************************)
(* concurrent transferProperty transactions                                *)
(*                                                                         *)
(* transferProperty is a GetState followed by a PutState. The ledger       *)
(* serializes transactions by an optimistic version check (spec, section   *)
(* 5): a read captures the version of the key, and a write resting on a    *)
(* read of a version that is no longer current is rejected with an error.  *)
(* The two halves of the handler run as separate steps, so that another    *)
(* transaction may write in between.                                       *)
(***************************************************************************)
ConcOwnerStrings == {<<"A">>, <<"B">>}

ConcTransferArgs == {<<id, o>> : id \in {<<"p">>}, o \in ConcOwnerStrings}

ConcCreateArgs == {<<<<"p">>, <<"N">>, <<"s">>, <<"C">>>>}

\* the version the ledger holds for key; 0 for a key never written
VersionOf(key) == IF key \in DOMAIN version THEN version[key] ELSE 0

Bump(key) ==
    [k \in DOMAIN version \cup {key} |->
        IF k = key THEN VersionOf(key) + 1 ELSE version[k]]

\* the ledger's answer to the PutState of a transaction that read key at
\* readVersion: the rejection of a stale read, else whatever else the stub
\* may answer
PutStateAnswers(key, readVersion) ==
    IF VersionOf(key) # readVersion THEN {ConflictError} ELSE StubErrors

\* a transaction starts: the handler runs up to its GetState
TxGetState(t) ==
    /\ txs[t].pc = "idle"
    /\ \E args \in ConcTransferArgs, getErr \in StubErrors :
        LET g == transferPropertyGet(ledger, args, NoUnknowns(getErr, NoErr))
        IN  txs' = [txs EXCEPT ![t] =
                [pc |-> IF g.returned THEN "done" ELSE "read",
                 args |-> args,
                 propertyAsBytes |-> g.propertyAsBytes,
                 readVersion |-> VersionOf(args[1]),
                 writeVersion |-> 0,
                 resp |-> g.resp,
                 err |-> g.err]]
    /\ UNCHANGED <<ledger, version, last, marble>>

\* the transaction goes on: Unmarshal, the new owner, Marshal, PutState,
\* and the response
TxPutState(t) ==
    /\ txs[t].pc = "read"
    /\ VersionOf(txs[t].args[1]) < MaxVersion
    /\ \E putErr \in PutStateAnswers(txs[t].args[1], txs[t].readVersion) :
        LET r == transferPropertyPut(ledger, txs[t].args, txs[t].propertyAsBytes,
                                     NoUnknowns(NoErr, putErr))
            written == putErr = NoErr
        IN  /\ ledger' = r.ledger
            /\ version' = IF written THEN Bump(txs[t].args[1]) ELSE version
            /\ txs' = [txs EXCEPT ![t] =
                    [@ EXCEPT !.pc = "done", !.resp = r.resp, !.err = putErr,
                              !.writeVersion =
                                  IF written THEN VersionOf(txs[t].args[1]) + 1
                                  ELSE 0]]
    /\ UNCHANGED <<last, marble>>

\* an initProperty transaction, run in one step
TxInitProperty ==
    \E args \in ConcCreateArgs :
        LET r == initProperty(ledger, args, NoUnknowns(NoErr, NoErr))
        IN  /\ VersionOf(ToLower(args[1])) < MaxVersion
            /\ ledger' = r.ledger
            /\ version' = Bump(ToLower(args[1]))
            /\ UNCHANGED <<txs, last, marble>>

ConcNext ==
    \/ \E t \in Txs : TxGetState(t)
    \/ \E t \in Txs : TxPutState(t)
    \/ TxInitProperty

ConcSpec == Init /\ [][ConcNext]_vars

(***************************************************************************)
(* C10                                                                     *)
(***************************************************************************)
\* transaction t has returned after its PutState
Wrote(t) == txs[t].pc = "done" /\ txs[t].propertyAsBytes # Nil

\* t's PutState rested on a stale read and was rejected
Rejected(t) == Wrote(t) /\ txs[t].err = ConflictError

IsConflictError(r) == IsFailure(r) /\ r.message = <<ConflictError>>

\* C10: of two transferProperty transactions on the same property that read
\* the same version of its record, at most one is applied; a transaction
\* whose write the ledger rejected for its stale read returns the ledger's
\* ConflictError, which is neither success nor the failure returned for
\* another error of the stub; and the owner written by the transaction that
\* made the current version is the owner stored.
C10_StaleWriteRejected ==
    /\ \A t1, t2 \in Txs :
        (/\ t1 # t2
         /\ Wrote(t1) /\ Wrote(t2)
         /\ txs[t1].args[1] = txs[t2].args[1]
         /\ txs[t1].readVersion = txs[t2].readVersion) =>
            ~(IsSuccess(txs[t1].resp) /\ IsSuccess(txs[t2].resp))
    /\ \A t \in Txs :
        /\ Rejected(t) =>
            /\ IsConflictError(txs[t].resp)
            /\ txs[t].resp # Error(<<LedgerFailure>>)
            /\ txs[t].writeVersion = 0
        /\ (Wrote(t) /\ IsSuccess(txs[t].resp)) =>
            /\ txs[t].writeVersion = txs[t].readVersion + 1
            /\ txs[t].writeVersion = VersionOf(txs[t].args[1]) =>
                   ledger[txs[t].args[1]].owner = ToLower(txs[t].args[2])
        /\ (Wrote(t) /\ IsFailure(txs[t].resp)) => txs[t].writeVersion = 0

\* both transactions read the same version of the record of p; one was
\* applied and the other rejected
C10_Witness ==
    /\ Wrote("t1") /\ Wrote("t2")
    /\ txs["t1"].readVersion = txs["t2"].readVersion
    /\ txs["t1"].args[2] # txs["t2"].args[2]
    /\ IsSuccess(txs["t1"].resp)
    /\ Rejected("t2") /\ IsConflictError(txs["t2"].resp)
    /\ ledger[<<"p">>].owner = ToLower(txs["t1"].args[2])


(***************************************************************************)
(* C11                                                                     *)
(***************************************************************************)
\* the ledger a transferProperty with the last invocation's arguments leaves
\* when run on the current ledger with a stub that works
TransferredAgain ==
    transferProperty(ledger, last.args, NoUnknowns(NoErr, NoErr))

\* C11: transferProperty(p, X) is idempotent: on the ledger a successful
\* transferProperty(p, X) has left, a second transferProperty(p, X)
\* succeeds and leaves that same ledger.
C11_TransferIdempotent ==
    (last.function = "transferProperty" /\ IsSuccess(last.resp)) =>
        /\ IsSuccess(TransferredAgain.resp)
        /\ TransferredAgain.ledger = ledger

\* a transfer that changed the owner of an existing property
C11_Witness ==
    /\ last.function = "transferProperty"
    /\ IsSuccess(last.resp)
    /\ last.before[last.args[1]].docType = "property"
    /\ last.args[2] # Empty
    /\ ledger[last.args[1]].owner # last.before[last.args[1]].owner


(***************************************************************************)
(* C12                                                                     *)
(***************************************************************************)
\* s is the decimal notation of an integer: digits, after an optional sign
ParsesAsInteger(s) ==
    \E k \in 0..1 :
        /\ Len(s) > k
        /\ k = 1 => s[1] \in {"+", "-"}
        /\ \A i \in (k + 1)..Len(s) : IsDigit(s[i])

\* the last invocation ran initConditon with five non-empty arguments
ConditionCall ==
    /\ last.function = "initConditon"
    /\ Len(last.args) = 5
    /\ NoEmpty(last.args)

\* C12: the initCondition operation (the handler initConditon), given five
\* non-empty arguments: if the deposit is the notation of an integer and the
\* stub accepts the write, it succeeds and the ledger is the one before with
\* the Condition of the call stored under the lower-cased conditionNum; if
\* the deposit is not the notation of an integer, it returns the NotNumeric
\* failure and the ledger is unchanged.
C12_DepositNumeric ==
    ConditionCall =>
        /\ (ParsesAsInteger(last.args[5]) /\ last.err = NoErr) =>
            /\ IsSuccess(last.resp)
            /\ ledger = PutState(last.before, ToLower(last.args[1]),
                                 ExpectedRecord("initConditon", last.args))
        /\ ~ParsesAsInteger(last.args[5]) =>
            /\ IsNotNumeric(last.resp)
            /\ ledger = last.before

\* a Condition with deposit 5 is stored, and a call with a deposit that is
\* no number has just been refused
C12_Witness ==
    /\ ConditionCall
    /\ ~ParsesAsInteger(last.args[5])
    /\ IsNotNumeric(last.resp)
    /\ <<"q">> \in DOMAIN ledger
    /\ ledger[<<"q">>].docType = "condition"
    /\ ledger[<<"q">>].deposit = 5


(***************************************************************************)
(* C13                                                                     *)
(***************************************************************************)
\* doc's field f names a key of the ledger that holds a record of this kind
Refers(doc, f, kind) ==
    /\ f \in DOMAIN doc
    /\ doc[f] \in DOMAIN ledger
    /\ ledger[doc[f]].docType = kind

\* C13: in every reachable ledger every stored Condition references a
\* property_num at which a Property is stored, and every stored Contract
\* references a condition_num at which a Condition is stored.
C13_ReferentialIntegrity ==
    \A k \in DOMAIN ledger :
        /\ ledger[k].docType = "condition" =>
               Refers(ledger[k], "property_num", "property")
        /\ ledger[k].docType = "contract" =>
               Refers(ledger[k], "condition_num", "condition")

(***************************************************************************)
(* C14                                                                     *)
(***************************************************************************)
\* C14: transferProperty of a key whose stored record is not a Property
\* (its docType is missing or that of another kind) returns a failure and
\* leaves the ledger unchanged.
C14_TransferChecksDocType ==
    (/\ last.function = "transferProperty"
     /\ Len(last.args) >= 2
     /\ last.args[1] \in DOMAIN last.before
     /\ last.before[last.args[1]].docType # "property") =>
        /\ IsFailure(last.resp)
        /\ ledger = last.before

(***************************************************************************)
(* C15                                                                     *)
(***************************************************************************)
\* C15: after a successful initProperty with identifier a, for every
\* identifier b that differs from a only in letter case, readValue(b) and
\* transferProperty(b, owner) address the record created under a: neither
\* returns NotFound.
C15_IdentifiersCaseStable ==
    (last.function = "initProperty" /\ IsSuccess(last.resp)) =>
        \A b \in IdStrings :
            ToLower(b) = ToLower(last.args[1]) =>
                /\ ~IsNotFound(ReadBack(b))
                /\ ~IsNotFound(transferProperty(ledger, <<b, <<"A">>>>,
                                                NoUnknowns(NoErr, NoErr)).resp)

(***************************************************************************)
(* C17                                                                     *)
(***************************************************************************)
\* C17: in every reachable ledger every stored Condition has deposit >= 0.
C17_DepositNonNegative ==
    \A k \in DOMAIN ledger :
        (ledger[k].docType = "condition" /\ "deposit" \in DOMAIN ledger[k]) =>
            ledger[k].deposit >= 0


(***************************************************************************)
(* C16                                                                     *)
(***************************************************************************)
DeleteCall == last.function = "delete" /\ Len(last.args) >= 1

PropertyNumStrings == {<<"1">>, <<"2">>}
CompositeOwnerStrings == {<<"B">>, <<"c">>}

\* the JSON keys of struct contract
ContractFields == {"docType", "contract_num", "condition_num"}

\* &contract{objectType, contractNum, conditionNum}
contract(objectType, contractNum, conditionNum) ==
    [docType |-> objectType, contract_num |-> contractNum,
     condition_num |-> conditionNum]

\* the key PutState is given where the code passes an int: its decimal text
Itoa(n) ==
    <<CASE n = 0 -> "0" [] n = 1 -> "1" [] n = 2 -> "2" [] n = 3 -> "3"
        [] n = 4 -> "4" [] n = 5 -> "5" [] n = 6 -> "6" [] n = 7 -> "7"
        [] n = 8 -> "8" [] OTHER -> "9">>

\* the byte slices in scope where initContract names the undeclared
\* conditionOfContractJSONasBytes
BytesInScope == {"propertyJSONasBytes", "conditionJSONasBytes", "contractJSONasBytes"}

\* the PutState of initContract the stub fails: 0 for none, else the 1st,
\* 2nd or 3rd
PutFailures == 0..3

\* a panic of the Go runtime
Panic(message) == [status |-> "PANIC", message |-> <<message>>, payload |-> Nil]

\* json.Unmarshal(bytes, &propertyToTransfer) for the struct property of
\* this file, whose Property_num is an int
UnmarshalProperty(doc) ==
    [f \in PropertyFields |->
        IF f \in DOMAIN doc THEN doc[f]
        ELSE IF f = "property_num" THEN 0 ELSE Zero(f)]

\* what stub.GetStateByPartialCompositeKey(propertyCompositeKey) may hand
\* back as bytes: the key is built from the constants "property" and
\* "Property_num" alone, no record is ever stored under a composite key, and
\* the code takes the result for the bytes of a record: nil, or any record
QueryResults(st) == {Nil} \cup {<<st[k]>> : k \in DOMAIN st}

\* the three PutState calls of initContract and the returns between them;
\* a PutState that fails writes nothing, the earlier ones have been made
initContractSave(st, keys, docs, putFails) ==
    LET s1 == PutState(st, keys[1], docs[1])
        s2 == PutState(s1, keys[2], docs[2])
        s3 == PutState(s2, keys[3], docs[3])
    IN  IF putFails = 1 THEN Ret(Error(<<LedgerFailure>>), st, LedgerFailure)
        ELSE IF putFails = 2 THEN Ret(Error(<<LedgerFailure>>), s1, LedgerFailure)
        ELSE IF putFails = 3 THEN Ret(Error(<<LedgerFailure>>), s2, LedgerFailure)
        ELSE Ret(Success(Nil), s3, NoErr)

\* initContract takes no value from args. The address literal of the code
\* is Korean text, written here in Latin letters
initContract(st, args, u) ==
    LET propertyNum  == 1
        propertyName == <<"I", "S", "L", "A", "B">>
        address      == <<"S", "e", "o", "u", "l", " ", "S", "e", "o", "n", "g",
                          "b", "u", "k", "-", "g", "u">>
        owner        == <<"A">>
        conditionNum == 1
        seller       == <<"A">>
        buyer        == <<"B">>
        deposit      == 5000000
        contractNum  == 1
        propertyJSONasBytes ==
            property("property", propertyNum, propertyName, address, owner)
        conditionJSONasBytes ==
            conditionOfContract("conditionOfContract", conditionNum, propertyNum,
                                seller, buyer, deposit)
        contractJSONasBytes == contract("contract", contractNum, conditionNum)
        conditionOfContractJSONasBytes ==
            CASE u.conditionBytes = "propertyJSONasBytes" -> propertyJSONasBytes
              [] u.conditionBytes = "contractJSONasBytes" -> contractJSONasBytes
              [] OTHER -> conditionJSONasBytes
    IN  initContractSave(st,
            <<Itoa(propertyNum), Itoa(conditionNum), Itoa(contractNum)>>,
            <<propertyJSONasBytes, conditionOfContractJSONasBytes,
              contractJSONasBytes>>,
            u.putFails)

\* readProperty: args[0] is indexed without a length check; the value of
\* Atoi is not used. propertyAsBytes is not declared in this function:
\* u.propertyAsBytesNil says whether it compares equal to nil. The check of
\* the query's error is commented out
readProperty(st, args, u) ==
    IF Len(args) < 1
    THEN Ret(Panic("index out of range"), st, NoErr)
    ELSE IF u.compositeErr # NoErr
    THEN Ret(Error(<<"Failed to get marble:", u.compositeErr>>), st,
             u.compositeErr)
    ELSE IF u.propertyAsBytesNil
    THEN Ret(Error(<<"Property does not exist">>), st, NoErr)
    ELSE LET valAsbytes == IF u.queryErr # NoErr THEN Nil ELSE u.found
         IN  Ret(Success(valAsbytes), st, u.queryErr)


\* transferProperty of the composite-key variant: the error of
\* CreateCompositeKey is printed and the function goes on; the record is
\* looked up by the composite key and written under args[0]
transferPropertyComposite(st, args, u) ==
    IF Len(args) < 2
    THEN Ret(Error(<<"Incorrect number of arguments. Expecting 2">>), st, NoErr)
    ELSE LET propertyNum == args[1]
             newOwner    == ToLower(args[2])
             propertyAsBytes == IF u.queryErr # NoErr THEN Nil ELSE u.found
         IN  IF u.queryErr # NoErr
             THEN Ret(Error(<<"Failed to get marble:", u.queryErr>>), st,
                      IF u.compositeErr # NoErr THEN u.compositeErr
                      ELSE u.queryErr)
             ELSE IF propertyAsBytes = Nil
             THEN Ret(Error(<<"Property does not exist">>), st, u.compositeErr)
             ELSE LET propertyToTransfer == UnmarshalProperty(propertyAsBytes[1])
                      r == PutAndReturn(st, propertyNum,
                                        WithOwner(propertyToTransfer, newOwner),
                                        u.putErr)
                  IN  IF u.compositeErr # NoErr
                      THEN [r EXCEPT !.err = u.compositeErr]
                      ELSE r

compositeTransferArgs == ArgLists(<<PropertyNumStrings, CompositeOwnerStrings>>)

readPropertyArgs == {<<>>} \cup {<<n>> : n \in PropertyNumStrings}

\* the stub fails at most one call of an invocation
CompositeFaults ==
    {f \in [composite : StubErrors, query : StubErrors, put : StubErrors] :
        Cardinality({c \in {"composite", "query", "put"} : f[c] # NoErr}) <= 1}

\* what a call of these handlers does not control
CompositeUnknowns(f, found, propertyAsBytesNil, conditionBytes, putFails) ==
    [compositeErr |-> f.composite, queryErr |-> f.query, putErr |-> f.put,
     found |-> found, propertyAsBytesNil |-> propertyAsBytesNil,
     conditionBytes |-> conditionBytes, putFails |-> putFails]

NoFaults == [composite |-> NoErr, query |-> NoErr, put |-> NoErr]

\* one call: found is what the composite-key query handed the handler
Call(function, args, r, found) ==
    /\ ledger' = r.ledger
    /\ last' = [function |-> function, args |-> args, resp |-> r.resp,
                err |-> r.err, before |-> ledger, found |-> found]
    /\ UNCHANGED <<marble, version, txs>>

CallInitContract ==
    \E putFails \in PutFailures, conditionBytes \in BytesInScope :
        Call("initContract", <<>>,
             initContract(ledger, <<>>,
                 CompositeUnknowns(NoFaults, Nil, FALSE, conditionBytes, putFails)),
             Nil)

CallReadProperty ==
    \E args \in readPropertyArgs, f \in CompositeFaults,
       found \in QueryResults(ledger), propertyAsBytesNil \in BOOLEAN :
        /\ f.put = NoErr
        /\ Call("readProperty", args,
                readProperty(ledger, args,
                    CompositeUnknowns(f, found, propertyAsBytesNil,
                                      "conditionJSONasBytes", 0)),
                found)

CallTransferProperty ==
    \E args \in compositeTransferArgs, f \in CompositeFaults,
       found \in QueryResults(ledger) :
        Call("transferProperty", args,
             transferPropertyComposite(ledger, args,
                 CompositeUnknowns(f, found, FALSE, "conditionJSONasBytes", 0)),
             found)

CompositeInit ==
    /\ ledger = <<>>
    /\ marble \in MarbleTypes
    /\ version = <<>>
    /\ txs = [t \in Txs |-> Idle]
    /\ last = [function |-> "Init", args |-> <<>>, resp |-> Success(Nil),
               err |-> NoErr, before |-> <<>>, found |-> Nil]

CompositeNext ==
    \/ CallInitContract
    \/ CallReadProperty
    \/ CallTransferProperty

CompositeSpec == CompositeInit /\ [][CompositeNext]_vars

(***************************************************************************)
(* C18                                                                     *)
(***************************************************************************)
\* the ledger after all three writes of initContract, in their order
InitContractApplied(st) ==
    {initContract(st, <<>>,
         CompositeUnknowns(NoFaults, Nil, FALSE, b, 0)).ledger : b \in BytesInScope}

\* C18: no call applies its writes partially: it returns success with all of
\* its writes applied, or it returns a failure response and the ledger is as
\* it was before the call, also when a PutState fails part-way through.
C18_NoPartialWrites ==
    \/ /\ IsSuccess(last.resp)
       /\ last.function = "initContract" => ledger \in InitContractApplied(last.before)
    \/ /\ ~IsSuccess(last.resp)
       /\ ledger = last.before

(***************************************************************************)
(* C19                                                                     *)
(***************************************************************************)
\* C19: a call during which the ledger stub returned an error (from
\* CreateCompositeKey, the composite-key query, GetState or PutState)
\* returns a failure response, never success.
C19_StubErrorFails == last.err # NoErr => IsFailure(last.resp)

(***************************************************************************)
(* C20                                                                     *)
(***************************************************************************)
\* C20: in the composite-key transferProperty the record fetched for
\* propertyNum through the composite key is the record stored under
\* propertyNum, and the record is written back under the key it was read
\* from: a successful transfer of propertyNum finds that key present before
\* and works on the record stored there.
C20_CompositeResolvesPrimary ==
    (last.function = "transferProperty" /\ IsSuccess(last.resp)) =>
        /\ last.args[1] \in DOMAIN last.before
        /\ last.found = <<last.before[last.args[1]]>>


(***************************************************************************)
(* C21                                                                     *)
(***************************************************************************)
\* a non-empty string of white space only: trimming leaves nothing of it
WhitespaceOnly(s) ==
    /\ Len(s) > 0
    /\ \A i \in 1..Len(s) : s[i] \in {" ", "\t", "\n", "\r"}

\* C21: a create operation called with the required number of arguments, one
\* of which consists of white space only, returns the EmptyField validation
\* error and leaves the ledger unchanged.
C21_WhitespaceIsEmpty ==
    (/\ last.function \in Creates
     /\ Len(last.args) = Required(last.function)
     /\ \E i \in 1..Len(last.args) : WhitespaceOnly(last.args[i])) =>
        /\ IsEmptyField(last.resp)
        /\ ledger = last.before


(***************************************************************************)
(* C22                                                                     *)
(***************************************************************************)
\* C22: readValue is a pure response: whatever its arguments and whether it
\* succeeds or fails, the ledger after it is the ledger before it; when it
\* succeeds it was given one argument, that key held a record, and the
\* payload is exactly the record last written under that key.
C22_ReadValuePure ==
    last.function = "readValue" =>
        /\ ledger = last.before
        /\ IsSuccess(last.resp) =>
               /\ Len(last.args) = 1
               /\ last.args[1] \in DOMAIN last.before
               /\ last.resp.payload = <<last.before[last.args[1]]>>

C22_Witness ==
    /\ last.function = "readValue"
    /\ IsSuccess(last.resp)
    /\ last.resp.payload = <<ledger[last.args[1]]>>
    /\ ledger[last.args[1]].docType = "property"
    /\ ledger[last.args[1]].owner = <<"a">>


(***************************************************************************)
(* C23                                                                     *)
(***************************************************************************)
\* the field that carries the identity of a record of this kind
IdentityField(docType) ==
    CASE docType = "property" -> "property_num"
      [] docType = "condition" -> "condition_num"
      [] OTHER -> "contract_num"

\* C23: every record in the ledger is stored under its own identity: the
\* record under key k has docType property, condition or contract, and its
\* identity field for that kind equals k.
C23_StoredUnderIdentity ==
    \A k \in DOMAIN ledger :
        /\ ledger[k].docType \in {"property", "condition", "contract"}
        /\ IdentityField(ledger[k].docType) \in DOMAIN ledger[k]
        /\ ledger[k][IdentityField(ledger[k].docType)] = k

(***************************************************************************)
(* C24                                                                     *)
(***************************************************************************)
\* the JSON keys whose values are strings
StringFields ==
    {"property_num", "condition_num", "contract_num", "name", "address",
     "owner", "seller", "buyer", "color"}

IsLowerCase(s) == ToLower(s) = s

====
